---- MODULE Spec2Model ----
(***************************************************************************)
(* The points-exchange controller of src/Proyecto_JS/pickproduct/smain.ts  *)
(* (class ExitoPointsExchange) as a state machine.                         *)
(*                                                                         *)
(* The document is an input: a sequence of product cards, each with a      *)
(* data-id and a data-points attribute, an optional #confirmButton and an  *)
(* optional .points-value element.  JavaScript runs every handler to       *)
(* completion, so each handler is one action; an uncaught TypeError ends   *)
(* the handler where it is raised and is recorded in threw.                *)
(*                                                                         *)
(* Transient styling (scale pulse, shake, the "Puntos insuficientes"       *)
(* bubble, hover overlay, scroll animation) writes only to element styles  *)
(* that no method reads back; it is left out.  The rejected branch is      *)
(* visible in last.outcome.                                                *)
(***************************************************************************)
EXTENDS Integers, Sequences, FiniteSets, TLC

VARIABLES
    page,              \* the product cards of the document, in document order
    hasButton,         \* the document has an element with id confirmButton
    hasPointsValue,    \* the document has a .points-value element
    phase,             \* "loading" until DOMContentLoaded has run the constructor
    availablePoints,   \* ExitoPointsExchange.availablePoints
    selectedProducts,  \* ExitoPointsExchange.selectedProducts (Set<string>)
    products,          \* ExitoPointsExchange.products (Map<string, Product>)
    confirmButton,     \* ExitoPointsExchange.confirmButton: "undefined", "null", "element"
    confirmListener,   \* a click listener is registered on the confirm button
    btnDisabled,       \* confirmButton.disabled in the document
    btnLabel,          \* confirmButton.innerHTML in the document
    marked,            \* the cards that carry the class "selected"
    display,           \* text and low-points class of the .points-value element
    pending,           \* number of processExchange timers not yet fired
    threw,             \* the last handler ended in an uncaught TypeError
    last,              \* history: the last handler run, with the state before it
    prev               \* history: the handler run before last

vars == << page, hasButton, hasPointsValue, phase, availablePoints,
           selectedProducts, products, confirmButton, confirmListener,
           btnDisabled, btnLabel, marked, display, pending, threw, last, prev >>

-----------------------------------------------------------------------------
(* Bounds and program constants *)

MaxPending == 2            \* cap on timers in flight

InitialPoints == 7000      \* private availablePoints = 7000
LowPointsThreshold == 1000 \* remaining < 1000

-----------------------------------------------------------------------------
(* JavaScript numbers: the integers and NaN.  NaN is a value outside the   *)
(* range any sum of costs reaches; every arithmetic operator treats it as  *)
(* IEEE-754 does.                                                          *)

NaN == -1000000000

Add(a, b) == IF a = NaN \/ b = NaN THEN NaN ELSE a + b
Sub(a, b) == IF a = NaN \/ b = NaN THEN NaN ELSE a - b
Leq(a, b) == a # NaN /\ b # NaN /\ a <= b
Lt(a, b) == a # NaN /\ b # NaN /\ a < b

(* Attribute values are sequences of characters; an absent attribute reads *)
(* as undefined.                                                           *)
Undefined == "undefined"
NoAttr == << Undefined >>

Digits == {"0", "1", "2", "3", "4", "5", "6", "7", "8", "9"}

DigitValue(c) ==
    CASE c = "0" -> 0 [] c = "1" -> 1 [] c = "2" -> 2 [] c = "3" -> 3
      [] c = "4" -> 4 [] c = "5" -> 5 [] c = "6" -> 6 [] c = "7" -> 7
      [] c = "8" -> 8 [] c = "9" -> 9

RECURSIVE SkipSpaces(_)
SkipSpaces(s) ==
    IF s # << >> /\ Head(s) = " " THEN SkipSpaces(Tail(s)) ELSE s

RECURSIVE DigitPrefix(_)
DigitPrefix(s) ==
    IF s # << >> /\ Head(s) \in Digits
    THEN << Head(s) >> \o DigitPrefix(Tail(s))
    ELSE << >>

RECURSIVE DigitsValue(_, _)
DigitsValue(s, acc) ==
    IF s = << >> THEN acc ELSE DigitsValue(Tail(s), 10 * acc + DigitValue(Head(s)))

(* Number.parseInt(string) with no radix, on decimal input: leading white  *)
(* space is skipped, one sign is read, then the longest run of digits;     *)
(* what follows is ignored; no digit at all gives NaN.                     *)
ParseInt(str) ==
    LET t == SkipSpaces(str)
        signed == t # << >> /\ Head(t) \in {"+", "-"}
        body == IF signed THEN Tail(t) ELSE t
        ds == DigitPrefix(body)
    IN  IF ds = << >> THEN NaN
        ELSE IF signed /\ Head(t) = "-" THEN 0 - DigitsValue(ds, 0)
        ELSE DigitsValue(ds, 0)

-----------------------------------------------------------------------------
(* The documents *)

Card(id, pts) == [id |-> id, points |-> pts]

SamplePage ==
    << Card("A", << "3", "0", "0", "0" >>),
       Card("B", << "5", "0", "0", "0" >>),
       Card("C", << "2", "0", "0", "0" >>),
       Card("D", << "4", "0", "0", "0" >>) >>

EdgePage ==
    << Card("E", << "0" >>),
       Card("F", << "7", "0", "0", "0" >>),
       Card("G", << "7", "0", "0", "1" >>),
       Card("H", << "6", "5", "0", "0" >>) >>

WellFormedPages == {SamplePage, EdgePage}

MarkupIds == {"A", "B", Undefined}
MarkupPoints ==
    { << "3", "0", "0", "0" >>, << "-", "1", "0", "0", "0" >>,
      << "a", "b", "c" >>, << " ", "1", "2", "p", "x" >>, NoAttr }
MarkupCards == {Card(i, p) : i \in MarkupIds, p \in MarkupPoints}
NegativeCostPage ==
    << Card("A", << "5", "0", "0", "0" >>),
       Card("B", << "3", "0", "0", "0" >>),
       Card("N", << "-", "1", "0", "0", "0" >>) >>
MarkupPages ==
    {<< c1, c2 >> : c1 \in MarkupCards, c2 \in MarkupCards} \cup {NegativeCostPage}

Pages == WellFormedPages \cup MarkupPages

UnknownIds == {"Z"}

Cards == 1..Len(page)

-----------------------------------------------------------------------------
(* The controller and the elements it writes, as one record *)

Cur ==
    [availablePoints |-> availablePoints,
     selectedProducts |-> selectedProducts,
     products |-> products,
     confirmButton |-> confirmButton,
     confirmListener |-> confirmListener,
     btnDisabled |-> btnDisabled,
     btnLabel |-> btnLabel,
     marked |-> marked,
     display |-> display,
     pending |-> pending,
     threw |-> FALSE]

Assign(s) ==
    /\ availablePoints' = s.availablePoints
    /\ selectedProducts' = s.selectedProducts
    /\ products' = s.products
    /\ confirmButton' = s.confirmButton
    /\ confirmListener' = s.confirmListener
    /\ btnDisabled' = s.btnDisabled
    /\ btnLabel' = s.btnLabel
    /\ marked' = s.marked
    /\ display' = s.display
    /\ pending' = s.pending
    /\ threw' = s.threw

(* confirmButton.innerHTML: the text the template of line 118 produces,  *)
(* kept as its parts.                                                      *)
Label(kind, count, plural, total) ==
    [kind |-> kind, count |-> count, plural |-> plural, total |-> total]
GenericLabel == Label("generic", 0, FALSE, 0)        \* Confirmar Seleccion
ProcessingLabel == Label("processing", 0, FALSE, 0)  \* Procesando...
MarkupLabel == Label("markup", 0, FALSE, 0)          \* what the document holds

MarkupDisplay == [written |-> FALSE, remaining |-> 0, low |-> FALSE]

-----------------------------------------------------------------------------
(* Map.set *)
MapSet(m, k, v) == [x \in (DOMAIN m) \cup {k} |-> IF x = k THEN v ELSE m[x]]

EmptyMap == [x \in {} |-> 0]

(* initProducts: one products.set per card, in document order *)
RECURSIVE InitProductsFrom(_, _)
InitProductsFrom(cards, map) ==
    IF cards = << >> THEN map
    ELSE LET card == Head(cards)
             id == card.id
             points == ParseInt(card.points)
         IN  InitProductsFrom(Tail(cards),
                 MapSet(map, id, [id |-> id, points |-> points, selected |-> FALSE]))

InitProducts(s) == [s EXCEPT !.products = InitProductsFrom(page, s.products)]

(* calculateTotalPoints: the sum over selectedProducts of the points of    *)
(* the products found in the map                                           *)
RECURSIVE SumPoints(_, _)
SumPoints(ids, map) ==
    IF ids = {} THEN 0
    ELSE LET id == CHOOSE x \in ids : TRUE
         IN  Add(IF id \in DOMAIN map THEN map[id].points ELSE 0,
                 SumPoints(ids \ {id}, map))

CalculateTotalPoints(s) == SumPoints(s.selectedProducts, s.products)

(* updateConfirmButton that sets disabled only when it finds no selection *)
UpdateConfirmButtonNeverEnables(s) ==
    IF s.threw THEN s
    ELSE LET hasSelection == Cardinality(s.selectedProducts) > 0
         IN  IF s.confirmButton # "element" THEN [s EXCEPT !.threw = TRUE]
             ELSE IF hasSelection
             THEN [s EXCEPT !.btnLabel = Label("count", Cardinality(s.selectedProducts),
                                               Cardinality(s.selectedProducts) > 1,
                                               SumPoints(s.selectedProducts, s.products))]
             ELSE [s EXCEPT !.btnDisabled = TRUE, !.btnLabel = GenericLabel]

(* updateConfirmButton: a write to a property of null or undefined throws *)
UpdateConfirmButton(s) ==
    IF s.threw THEN s
    ELSE LET hasSelection == Cardinality(s.selectedProducts) > 0
         IN  IF s.confirmButton # "element" THEN [s EXCEPT !.threw = TRUE]
             ELSE IF hasSelection
             THEN LET totalPoints == CalculateTotalPoints(s)
                      selectedCount == Cardinality(s.selectedProducts)
                  IN  [s EXCEPT !.btnDisabled = ~hasSelection,
                                !.btnLabel = Label("count", selectedCount,
                                                   selectedCount > 1, totalPoints)]
             ELSE [s EXCEPT !.btnDisabled = ~hasSelection,
                            !.btnLabel = GenericLabel]

(* updatePointsDisplay *)
UpdatePointsDisplay(s) ==
    IF s.threw THEN s
    ELSE LET totalSelected == CalculateTotalPoints(s)
             remaining == Sub(s.availablePoints, totalSelected)
         IN  IF hasPointsValue
             THEN [s EXCEPT !.display = [written |-> TRUE,
                                         remaining |-> remaining,
                                         low |-> Lt(remaining, LowPointsThreshold)]]
             ELSE s

(* initEventListeners: the confirm listener is added through              *)
(* this.confirmButton?.addEventListener, so only when the field holds an   *)
(* element at that moment.                                                 *)
InitEventListeners(s) ==
    [s EXCEPT !.confirmListener = (s.confirmButton = "element")]

(* document.getElementById('confirmButton') *)
GetConfirmButton(s) ==
    [s EXCEPT !.confirmButton = IF hasButton THEN "element" ELSE "null"]

(* init *)
InitController(s) ==
    UpdateConfirmButton(GetConfirmButton(InitEventListeners(InitProducts(s))))

(* the budget check with < for <= *)
EnoughPointsStrict(totalSelectedPoints, points, available) ==
    Lt(Add(totalSelectedPoints, points), available)

(* line 83: totalSelectedPoints + product.points <= this.availablePoints *)
EnoughPoints(totalSelectedPoints, points, available) ==
    Leq(Add(totalSelectedPoints, points), available)

(* deselection that leaves product.selected set *)
DeselectProductKeepsFlag(s, productId, element) ==
    [s EXCEPT !.selectedProducts = @ \ {productId},
              !.marked = @ \ {element}]

(* lines 76-79 *)
DeselectProduct(s, productId, element) ==
    [s EXCEPT !.selectedProducts = @ \ {productId},
              !.products[productId].selected = FALSE,
              !.marked = @ \ {element}]

(* selection that replaces the set instead of adding to it *)
SelectProductAlone(s, productId, element) ==
    [s EXCEPT !.selectedProducts = {productId},
              !.products = [id \in DOMAIN s.products |->
                               [s.products[id] EXCEPT !.selected = (id = productId)]],
              !.marked = {element}]

(* lines 84-88 *)
SelectProduct(s, productId, element) ==
    [s EXCEPT !.selectedProducts = @ \cup {productId},
              !.products[productId].selected = TRUE,
              !.marked = @ \cup {element}]

(* a rejection that has already added the product to the set *)
RejectProductAfterAdd(s, productId, element) ==
    [s EXCEPT !.selectedProducts = @ \cup {productId}]

(* lines 89-92: showInsufficientPointsFeedback, styling only *)
RejectProduct(s, productId, element) == s

(* the branch toggleProductSelection takes *)
ToggleOutcome(s, productId) ==
    IF productId \notin DOMAIN s.products THEN "unknown"
    ELSE IF s.products[productId].selected THEN "deselected"
    ELSE IF EnoughPoints(CalculateTotalPoints(s), s.products[productId].points,
                         s.availablePoints)
    THEN "selected"
    ELSE "rejected"

(* toggleProductSelection without the early return of line 73: the refresh *)
(* of lines 95-96 runs for an unknown identifier too                       *)
ToggleProductSelectionAlwaysRefreshes(s, productId, element) ==
    LET outcome == ToggleOutcome(s, productId)
        s1 == CASE outcome = "deselected" -> DeselectProduct(s, productId, element)
                [] outcome = "selected" -> SelectProduct(s, productId, element)
                [] OTHER -> s
    IN  UpdatePointsDisplay(UpdateConfirmButton(s1))

(* toggleProductSelection *)
ToggleProductSelection(s, productId, element) ==
    LET outcome == ToggleOutcome(s, productId)
    IN  IF outcome = "unknown" THEN s
        ELSE LET s1 == CASE outcome = "deselected" -> DeselectProduct(s, productId, element)
                         [] outcome = "selected" -> SelectProduct(s, productId, element)
                         [] outcome = "rejected" -> RejectProduct(s, productId, element)
             IN  UpdatePointsDisplay(UpdateConfirmButton(s1))

(* processExchange that sets the processing state and no timer *)
ProcessExchangeNoTimer(s) ==
    IF s.confirmButton # "element" THEN [s EXCEPT !.threw = TRUE]
    ELSE [s EXCEPT !.btnLabel = ProcessingLabel,
                   !.btnDisabled = TRUE]

(* processExchange, the synchronous part: lines 168-171 *)
ProcessExchange(s) ==
    IF s.confirmButton # "element" THEN [s EXCEPT !.threw = TRUE]
    ELSE [s EXCEPT !.btnLabel = ProcessingLabel,
                   !.btnDisabled = TRUE,
                   !.pending = @ + 1]

(* handleConfirmSelection that does not look at the answer *)
HandleConfirmSelectionAnyAnswer(s, answer) == ProcessExchange(s)

(* handleConfirmSelection: the summary is built and shown; confirm()       *)
(* answers                                                                 *)
HandleConfirmSelection(s, answer) ==
    IF answer THEN ProcessExchange(s) ELSE s

(* a reset that clears the set and leaves the flags *)
ResetSelectionSetOnly(s) ==
    [s EXCEPT !.selectedProducts = {}]

(* lines 175-176 *)
ResetSelection(s) ==
    [s EXCEPT !.selectedProducts = {},
              !.products = [id \in DOMAIN s.products |->
                               [s.products[id] EXCEPT !.selected = FALSE]]]

(* line 179 *)
DeductPoints(s) ==
    [s EXCEPT !.availablePoints = Sub(@, CalculateTotalPoints(s))]

(* lines 182-184 *)
ClearMarks(s) == [s EXCEPT !.marked = {}]

(* the setTimeout callback of processExchange, lines 171-188 *)
(* Each statement starts from the state the one before it left.           *)
ExchangeCallback(s) ==
    LET fired == {[s EXCEPT !.pending = @ - 1]}
        after176 == {ResetSelection(a) : a \in fired}
        after179 == {DeductPoints(a) : a \in after176}
        after184 == {ClearMarks(a) : a \in after179}
        after186 == {UpdateConfirmButton(a) : a \in after184}
        after187 == {UpdatePointsDisplay(a) : a \in after186}
    IN  CHOOSE a \in after187 : TRUE

-----------------------------------------------------------------------------
(* History: the handler that ran last and the state it started from *)

Hist(op, id, card, outcome) ==
    [op |-> op, id |-> id, card |-> card, outcome |-> outcome, pre |-> Cur]

Record(op, id, card, outcome) ==
    /\ last' = Hist(op, id, card, outcome)
    /\ prev' = last

-----------------------------------------------------------------------------
(* The state of a freshly loaded document: the class's field initialisers  *)
(* (lines 9-12) and the markup as served.                                  *)
Loaded ==
    /\ hasButton \in BOOLEAN
    /\ hasPointsValue \in BOOLEAN
    /\ phase = "loading"
    /\ availablePoints = InitialPoints
    /\ selectedProducts = {}
    /\ products = EmptyMap
    /\ confirmButton = "undefined"
    /\ confirmListener = FALSE
    /\ btnDisabled = FALSE
    /\ btnLabel = MarkupLabel
    /\ marked = {}
    /\ display = MarkupDisplay
    /\ pending = 0
    /\ threw = FALSE
    /\ last = Hist("none", Undefined, 0, "none")
    /\ prev = last

Init ==
    /\ page \in Pages
    /\ Loaded

(* DOMContentLoaded: new ExitoPointsExchange(), whose constructor runs init *)
DOMContentLoaded ==
    /\ phase = "loading"
    /\ phase' = "ready"
    /\ Assign(InitController(Cur))
    /\ Record("init", Undefined, 0, "none")
    /\ UNCHANGED << page, hasButton, hasPointsValue >>

(* one call of toggleProductSelection(productId, element) *)
Toggle(productId, element) ==
    /\ phase = "ready"
    /\ Assign(ToggleProductSelection(Cur, productId, element))
    /\ Record("toggle", productId, element, ToggleOutcome(Cur, productId))
    /\ UNCHANGED << page, hasButton, hasPointsValue, phase >>

(* the click listener of a card, lines 44-48 *)
CardClick ==
    \E card \in Cards : Toggle(page[card].id, card)

(* toggleProductSelection with an identifier the catalog does not hold *)
ToggleUnknown ==
    \E productId \in UnknownIds, card \in Cards :
        /\ productId \notin DOMAIN products
        /\ Toggle(productId, card)

(* the body of the confirm button's click listener, lines 62-64, run as    *)
(* the operation confirmSelection; confirm() answers yes or no             *)
ConfirmClick ==
    \E answer \in BOOLEAN :
        /\ phase = "ready"
        /\ confirmButton = "element"
        /\ ~btnDisabled
        /\ answer => pending < MaxPending
        /\ Assign(HandleConfirmSelection(Cur, answer))
        /\ Record("confirm", Undefined, 0, IF answer THEN "accepted" ELSE "declined")
        /\ UNCHANGED << page, hasButton, hasPointsValue, phase >>

(* the user clicks the confirm button: the browser hands the click to the  *)
(* listener initEventListeners registered on it, if it registered one; a   *)
(* disabled button receives no click                                       *)
ButtonClick ==
    \E answer \in BOOLEAN :
        /\ phase = "ready"
        /\ hasButton
        /\ ~btnDisabled
        /\ answer => pending < MaxPending
        /\ IF confirmListener
           THEN /\ Assign(HandleConfirmSelection(Cur, answer))
                /\ Record("click", Undefined, 0,
                          IF answer THEN "accepted" ELSE "declined")
           ELSE /\ Assign(Cur)
                /\ Record("click", Undefined, 0, "nolistener")
        /\ UNCHANGED << page, hasButton, hasPointsValue, phase >>

(* a timer set by processExchange fires *)
ExchangeTimeout ==
    /\ pending > 0
    /\ Record("timer", Undefined, 0, "reset")
    /\ \E s \in {ExchangeCallback(Cur)} : Assign(s)
    /\ UNCHANGED << page, hasButton, hasPointsValue, phase >>

Next ==
    \/ DOMContentLoaded
    \/ CardClick
    \/ ToggleUnknown
    \/ ConfirmClick
    \/ ButtonClick
    \/ ExchangeTimeout

Spec == Init /\ [][Next]_vars

(* The browser runs every setTimeout callback once its delay has passed:   *)
(* a pending exchange timer does fire.  Liveness is checked on the         *)
(* well-formed documents.                                                  *)
InitWellFormed ==
    /\ page \in WellFormedPages
    /\ Loaded

SpecLive == InitWellFormed /\ [][Next]_vars /\ WF_vars(ExchangeTimeout)

-----------------------------------------------------------------------------
(* What the properties speak of *)

Flagged(map) == {id \in DOMAIN map : map[id].selected}

RECURSIVE CostOf(_, _)
CostOf(ids, map) ==
    IF ids = {} THEN 0
    ELSE LET id == CHOOSE x \in ids : TRUE
         IN  map[id].points + CostOf(ids \ {id}, map)

(* the total cost of the selected products of a controller state *)
SelectedCost(s) == CostOf(s.selectedProducts \cap DOMAIN s.products, s.products)

LastToggleKnown ==
    /\ last.op = "toggle"
    /\ last.id \in DOMAIN last.pre.products

LastToggleOnUnselected ==
    /\ LastToggleKnown
    /\ ~last.pre.products[last.id].selected
    /\ last.id \notin last.pre.selectedProducts

(* the document is one whose cards all carry an identifier and a           *)
(* non-negative integer cost                                                *)
WellFormedDocument == page \in WellFormedPages

(* the budget condition of the toggle recorded in last: the cost is a       *)
(* number and the total with it is within availablePoints                   *)
LastToggleAffordable ==
    LET cost == last.pre.products[last.id].points
    IN  /\ cost # NaN
        /\ SelectedCost(last.pre) + cost <= last.pre.availablePoints

(* C1: in every reachable state the costs of the selected products, by the  *)
(* set and by the flags, sum to at most availablePoints.                    *)
C1_BudgetNeverExceeded ==
    /\ SelectedCost(Cur) <= availablePoints
    /\ CostOf(Flagged(products), products) <= availablePoints

(* C2: once the deferred continuation of processExchange has run,           *)
(* availablePoints is its value before minus the total cost of the products *)
(* that were selected.  Stated of well-formed documents, where no          *)
(* malformed card is involved.                                              *)
C2_ExchangeDeductsTotal ==
    (WellFormedDocument /\ last.op = "timer") =>
        availablePoints = last.pre.availablePoints - SelectedCost(last.pre)

(* C3: once the deferred continuation has run, the selection set is empty,  *)
(* no product is flagged, and the confirm button is disabled and carries    *)
(* the generic label.                                                       *)
C3_ExchangeResets ==
    last.op = "timer" =>
        /\ selectedProducts = {}
        /\ Flagged(products) = {}
        /\ btnDisabled
        /\ btnLabel = GenericLabel

C3_Witness ==
    /\ last.op = "timer"
    /\ Cardinality(last.pre.selectedProducts) = 2
    /\ ~last.pre.btnDisabled

(* C4: while an exchange is pending the confirm button stays disabled, and  *)
(* no second exchange is started.  Stated of well-formed documents.         *)
C4_NoReentrantExchange ==
    WellFormedDocument =>
        /\ pending > 0 => btnDisabled
        /\ pending <= 1

(* C5: a toggle of an unselected product that fails the budget check leaves *)
(* the selection set, every flag and availablePoints as they were.          *)
C5_RejectedLeavesState ==
    ( /\ LastToggleOnUnselected
      /\ ~LastToggleAffordable )
    => /\ selectedProducts = last.pre.selectedProducts
       /\ products = last.pre.products
       /\ availablePoints = last.pre.availablePoints

C5_Witness ==
    /\ LastToggleOnUnselected
    /\ last.outcome = "rejected"
    /\ last.pre.selectedProducts # {}
    /\ last.pre.products[last.id].points <= last.pre.availablePoints

(* a further call of toggleProductSelection, from the state s a handler left *)
ThenToggle(s, productId, element) ==
    ToggleProductSelection([s EXCEPT !.threw = FALSE], productId, element)

Remaining(s) == s.availablePoints - SelectedCost(s)

(* the trace of the scenario: select A, select B, deselect A, select B, on  *)
(* a catalog with A at 3000 and B at 5000 and nothing selected              *)
ScenarioStart ==
    /\ page = SamplePage
    /\ phase = "ready"
    /\ selectedProducts = {}
    /\ availablePoints = 7000

ScenarioHolds ==
    LET s1 == ThenToggle(Cur, "A", 1)
        s2 == ThenToggle(s1, "B", 2)
        s3 == ThenToggle(s2, "A", 1)
        s4 == ThenToggle(s3, "B", 2)
    IN  /\ s1.selectedProducts = {"A"} /\ Remaining(s1) = 4000
        /\ s2.selectedProducts = {"A"} /\ Remaining(s2) = 4000
        /\ s2.products = s1.products
        /\ s3.selectedProducts = {} /\ Remaining(s3) = 7000
        /\ s4.selectedProducts = {"B"} /\ Remaining(s4) = 2000

(* C6: a toggle of a known, unselected product selects it exactly when the  *)
(* current total plus its cost is at most availablePoints, equality         *)
(* included; and the scenario trace gives 4000, 4000, 7000, 2000.           *)
C6_SelectIffAffordable ==
    /\ LastToggleOnUnselected =>
          ( ( /\ last.id \in selectedProducts
              /\ products[last.id].selected )
            <=> LastToggleAffordable )
    /\ LastToggleOnUnselected =>
          ( ( /\ selectedProducts = last.pre.selectedProducts
              /\ products = last.pre.products )
            <=> ~LastToggleAffordable )
    /\ ScenarioStart => ScenarioHolds

C6_Witness ==
    /\ LastToggleOnUnselected
    /\ last.pre.selectedProducts # {}
    /\ last.pre.products[last.id].points > 0
    /\ SelectedCost(last.pre) + last.pre.products[last.id].points
           = last.pre.availablePoints
    /\ last.id \in selectedProducts

(* C7: two toggles in a row of a product that was selected leave the        *)
(* selection set and the flags as they were before the two calls.           *)
C7_ToggleTwiceRestores ==
    ( /\ last.op = "toggle"
      /\ prev.op = "toggle"
      /\ last.id = prev.id
      /\ prev.id \in prev.pre.selectedProducts )
    => /\ selectedProducts = prev.pre.selectedProducts
       /\ Flagged(products) = Flagged(prev.pre.products)

(* C8: after a toggle of a known product the confirm button is disabled     *)
(* exactly when nothing is selected; with a selection its label carries the *)
(* number of selected products and their total cost, without one the        *)
(* generic label.                                                           *)
C8_ButtonFollowsSelection ==
    (LastToggleKnown /\ hasButton) =>
        /\ btnDisabled <=> selectedProducts = {}
        /\ selectedProducts # {} =>
              /\ btnLabel.kind = "count"
              /\ btnLabel.count = Cardinality(Flagged(products))
              /\ btnLabel.plural = (Cardinality(Flagged(products)) > 1)
              /\ btnLabel.total = CostOf(Flagged(products), products)
        /\ selectedProducts = {} => btnLabel = GenericLabel

C8_Witness ==
    /\ LastToggleKnown
    /\ hasButton
    /\ last.outcome = "deselected"
    /\ last.pre.btnDisabled
    /\ pending > 0
    /\ Cardinality(selectedProducts) = 1

(* C9: the catalog init builds holds only products with a defined           *)
(* identifier and a non-negative integer cost.                              *)
C9_MalformedItemsSkipped ==
    phase = "ready" =>
        \A id \in DOMAIN products :
            /\ id # Undefined
            /\ products[id].points # NaN
            /\ products[id].points >= 0

(* C10: on a document without a confirm button no handler raises an error.  *)
(* Stated of well-formed documents.                                         *)
C10_MissingButtonNoError ==
    (WellFormedDocument /\ ~hasButton) => ~threw

(* C11: a toggle with an identifier the catalog does not hold changes       *)
(* nothing: selection set, flags, availablePoints, the confirm button, the  *)
(* points display and the card marks are as before, and nothing is raised.  *)
C11_UnknownIdIsNoOp ==
    (last.op = "toggle" /\ last.id \notin DOMAIN last.pre.products) =>
        /\ selectedProducts = last.pre.selectedProducts
        /\ products = last.pre.products
        /\ availablePoints = last.pre.availablePoints
        /\ btnDisabled = last.pre.btnDisabled
        /\ btnLabel = last.pre.btnLabel
        /\ display = last.pre.display
        /\ marked = last.pre.marked
        /\ pending = last.pre.pending
        /\ ~threw

C11_Witness ==
    /\ last.op = "toggle"
    /\ last.id \notin DOMAIN last.pre.products
    /\ last.pre.selectedProducts # {}
    /\ last.pre.btnLabel = ProcessingLabel

(* C12: a declined prompt changes nothing: selection set, flags,            *)
(* availablePoints and the button are as before and no timer is set.        *)
C12_DeclineChangesNothing ==
    (last.op = "confirm" /\ last.outcome = "declined") =>
        /\ selectedProducts = last.pre.selectedProducts
        /\ products = last.pre.products
        /\ availablePoints = last.pre.availablePoints
        /\ btnDisabled = last.pre.btnDisabled
        /\ btnLabel = last.pre.btnLabel
        /\ pending = last.pre.pending

C12_Witness ==
    /\ last.op = "confirm"
    /\ last.outcome = "declined"
    /\ Cardinality(selectedProducts) = 2
    /\ ~btnDisabled

(* C13: an identifier is in the selection set exactly when it names a       *)
(* product of the catalog whose selected flag is set.                       *)
C13_SetMatchesFlags ==
    selectedProducts = Flagged(products)

C13_Witness ==
    /\ last.op = "toggle"
    /\ last.outcome = "selected"
    /\ prev.op = "timer"
    /\ Cardinality(prev.pre.selectedProducts) = 2
    /\ selectedProducts = {last.id}

(* C14: after a toggle of a known product and after an exchange completes,  *)
(* the points display shows availablePoints less the total cost of the      *)
(* selected products, and is flagged low exactly when that is below 1000.   *)
(* Stated of well-formed documents that have the display element.           *)
C14_DisplayShowsRemaining ==
    ( /\ WellFormedDocument
      /\ hasPointsValue
      /\ LastToggleKnown \/ last.op = "timer" )
    => /\ display.written
       /\ display.remaining = availablePoints - SelectedCost(Cur)
       /\ display.low <=> (availablePoints - SelectedCost(Cur) < 1000)

(* C17: while an exchange is pending the selection set does not change.     *)
(* Stated of well-formed documents.                                         *)
C17_SelectionFrozenWhilePending ==
    (WellFormedDocument /\ last.pre.pending > 0 /\ last.op # "timer") =>
        selectedProducts = last.pre.selectedProducts

(* C18: a toggle of p leaves availablePoints and every other product's flag *)
(* and set membership alone; a flag is set only by a toggle of its product  *)
(* that passes the budget check, and cleared only by a toggle of its        *)
(* product or by the reset of an exchange.                                  *)
C18_ToggleTouchesOnlyItsProduct ==
    /\ last.op = "toggle" =>
          /\ availablePoints = last.pre.availablePoints
          /\ DOMAIN products = DOMAIN last.pre.products
          /\ \A id \in DOMAIN products \ {last.id} :
                /\ products[id] = last.pre.products[id]
                /\ id \in selectedProducts <=> id \in last.pre.selectedProducts
    /\ \A id \in DOMAIN products \cap DOMAIN last.pre.products :
          /\ (~last.pre.products[id].selected /\ products[id].selected) =>
                /\ last.op = "toggle"
                /\ last.id = id
                /\ LastToggleAffordable
          /\ (last.pre.products[id].selected /\ ~products[id].selected) =>
                \/ last.op = "toggle" /\ last.id = id
                \/ last.op = "timer"

C18_Witness ==
    /\ last.op = "toggle"
    /\ last.outcome = "selected"
    /\ last.pre.selectedProducts # {}
    /\ prev.op = "toggle"
    /\ prev.outcome = "deselected"
    /\ prev.id # last.id

(* C15: once init has run on a document with a confirm button, the click   *)
(* listener is registered on it: a click on the enabled button runs         *)
(* handleConfirmSelection, and an accepted prompt starts the exchange.      *)
(* Stated of well-formed documents.                                         *)
C15_ConfirmClickIsWired ==
    (WellFormedDocument /\ last.op = "click") =>
            /\ last.pre.confirmListener
            /\ last.outcome \in {"accepted", "declined"}
            /\ last.outcome = "accepted" =>
                  /\ pending = last.pre.pending + 1
                  /\ btnLabel = ProcessingLabel

(* an exchange was started by the step into this state *)
Started(l) == l.op \in {"confirm", "click"} /\ l.outcome = "accepted"

(* C16: every call of processExchange sets one timer, nothing but the       *)
(* firing of a timer takes one away (no cancellation, no failure), each     *)
(* firing is one reset that leaves the selection empty, and while a timer   *)
(* is pending a reset eventually happens.                                   *)
C16_ExchangeCompletes ==
    /\ [] /\ Started(last) => pending = last.pre.pending + 1
          /\ last.op = "timer" =>
                /\ pending = last.pre.pending - 1
                /\ selectedProducts = {}
                /\ Flagged(products) = {}
          /\ pending > last.pre.pending => Started(last)
          /\ pending < last.pre.pending => last.op = "timer"
    /\ (pending > 0) ~> (last.op = "timer" /\ selectedProducts = {})

C16_Witness ==
    /\ last.op = "timer"
    /\ Started(prev)
    /\ pending = 0
    /\ last.pre.selectedProducts # {}

====
